---- MODULE Spec2Model ----
(***************************************************************************)
(* Session orchestration of the OORT Africa Assistant (app.py).            *)
(*                                                                         *)
(* One refresh-cycle thread re-executes main() on every event; detached    *)
(* threads run record_audio (listen tasks) and voice_output.speak (speak   *)
(* tasks).  st.session_state is the memory the threads share.  Every       *)
(* access of the refresh-cycle thread to session state that a listen task  *)
(* also writes (recording, last_voice_input) is a step of its own, so the  *)
(* interleavings of the source are the interleavings of the model.         *)
(* process_input reads and writes only messages and language, which no     *)
(* background thread writes, so it is one step.  A speak thread touches no *)
(* session state: it is the entry of speakTasks that process_input made    *)
(* when it started the thread, and its run is a stuttering step.           *)
(***************************************************************************)
EXTENDS Integers, Sequences, FiniteSets, TLC

\* ---------------------------------------------------------------- bounds
\* user events (submissions, language switches, mic clicks) in one behaviour
MaxEvents == 3
\* listen threads that one behaviour can start
MaxTasks == 2

\* ----------------------------------------------------------------- values
\* Python's None, as a value no text is equal to
None == <<"None">>

\* texts are sequences of characters; these are the ones the user types or
\* the recogniser returns
Texts == { <<>>, <<" ">>, <<"a">>, <<" ", "a">> }

Whitespace == {" "}

\* app.py:124-129, the values of language_options
Languages == {"english", "french", "arabic", "swahili"}

TaskIds == 1..MaxTasks

\* str.isspace(): at least one character and all of them whitespace
IsSpace(s) == Len(s) > 0 /\ \A k \in 1..Len(s) : s[k] \in Whitespace

\* truth value of an Optional[str]: None and "" are falsy
Truthy(x) == x /= None /\ x /= <<>>

\* kb.query(text, language): the knowledge base's answer, a string that is
\* determined by the question and the language
KbQuery(text, lang) == <<"answer", lang>> \o text

UserMsg(s) == [role |-> "user", content |-> s]
AssistantMsg(r) == [role |-> "assistant", content |-> r]

Last(q) == q[Len(q)]

VARIABLES
  \* st.session_state
  messages, recording, language, last_voice_input,
  \* the refresh-cycle thread: position and locals of the running script
  uiPc, selected_language, user_input, voice_text,
  \* the browser: the mic button as last rendered, a click not yet handled,
  \* a requested rerun not yet started
  micButton, pendingClick, refreshReq,
  \* the listen threads
  tasks,
  \* calls made to the collaborators
  kbLog, speakTasks,
  \* history: user events so far, which task staged last_voice_input /
  \* voice_text, how often each task's transcript went to process_input,
  \* the argument of the latest process_input call, the threads that were
  \* still to stage when recording was toggled off, the transcript that the
  \* running script has processed
  nEvents, lviFrom, voiceFrom, consumed, lastInput, toggledOff, runVoice

session == <<messages, recording, language, last_voice_input>>
uiLocals == <<selected_language, user_input, voice_text>>
browser == <<micButton, pendingClick, refreshReq>>
collab == <<kbLog, speakTasks>>
history == <<nEvents, lviFrom, voiceFrom, consumed, lastInput, toggledOff,
             runVoice>>
vars == <<session, uiPc, uiLocals, browser, tasks, collab, history>>

\* a thread that was never started
Unborn == [pc |-> "unborn", path |-> "none", lang |-> "none", text |-> None,
           status |-> "none", listened |-> FALSE, cleanups |-> 0, reruns |-> 0]

\* a thread that has ended after its st.rerun(): only the counts of what it
\* did are kept
Ended(t) == [Unborn EXCEPT !.pc = "done", !.cleanups = t.cleanups,
                           !.reruns = t.reruns + 1]

\* app.py:26-36 and the state before the first script run
Init ==
  /\ messages = <<>>
  /\ recording = FALSE
  /\ language = "english"
  /\ last_voice_input = None
  /\ uiPc = "idle"
  /\ selected_language = "none"
  /\ user_input = None
  /\ voice_text = None
  /\ micButton = "absent"
  /\ pendingClick = FALSE
  /\ refreshReq = FALSE
  /\ tasks = [i \in TaskIds |-> Unborn]
  /\ kbLog = <<>>
  /\ speakTasks = <<>>
  /\ nEvents = 0
  /\ lviFrom = 0
  /\ voiceFrom = 0
  /\ consumed = [i \in TaskIds |-> 0]
  /\ lastInput = None
  /\ toggledOff = {}
  /\ runVoice = None


\* the blank test without the isspace() half
IsBlank_NoSpaceCheck(s) == ~Truthy(s)

\* ------------------------------------------------------ process_input
\* app.py:96, "not user_input or user_input.isspace()"
IsBlank(s) == ~Truthy(s) \/ IsSpace(s)

\* the duplicate guard without the test of the role
IsDuplicate_AnyRole(msgs, s) ==
  /\ Len(msgs) > 0
  /\ Last(msgs).content = s

\* app.py:100, the duplicate guard
IsDuplicate(msgs, s) ==
  /\ Len(msgs) > 0
  /\ Last(msgs).role = "user"
  /\ Last(msgs).content = s

\* process_input with the speak thread given the user's text, not the response
ProcessInputResult_SpeakInput(msgs, lang, s) ==
  IF ~Truthy(s) \/ IsSpace(s)
    THEN [messages |-> msgs, queries |-> <<>>, speaks |-> <<>>]
  ELSE LET response == KbQuery(s, lang) IN
       [messages |-> Append(Append(msgs, UserMsg(s)), AssistantMsg(response)),
        queries |-> << [text |-> s, lang |-> lang] >>,
        speaks |-> << [text |-> s, lang |-> lang] >>]

\* process_input with the query made in the default language
ProcessInputResult_DefaultLanguage(msgs, lang, s) ==
  IF IsBlank(s) \/ IsDuplicate(msgs, s)
    THEN [messages |-> msgs, queries |-> <<>>, speaks |-> <<>>]
  ELSE LET response == KbQuery(s, "english") IN
       [messages |-> Append(Append(msgs, UserMsg(s)), AssistantMsg(response)),
        queries |-> << [text |-> s, lang |-> "english"] >>,
        speaks |-> << [text |-> response, lang |-> lang] >>]

\* process_input writing the answer into the history before the text
ProcessInputResult_AnswerFirst(msgs, lang, s) ==
  IF IsBlank(s) \/ IsDuplicate(msgs, s)
    THEN [messages |-> msgs, queries |-> <<>>, speaks |-> <<>>]
  ELSE LET response == KbQuery(s, lang) IN
       [messages |-> msgs \o <<AssistantMsg(response), UserMsg(s)>>,
        queries |-> << [text |-> s, lang |-> lang] >>,
        speaks |-> << [text |-> response, lang |-> lang] >>]

\* process_input with the new pair put in front of the history
ProcessInputResult_Prepend(msgs, lang, s) ==
  IF IsBlank(s) \/ IsDuplicate(msgs, s)
    THEN [messages |-> msgs, queries |-> <<>>, speaks |-> <<>>]
  ELSE LET response == KbQuery(s, lang) IN
       [messages |-> <<UserMsg(s), AssistantMsg(response)>> \o msgs,
        queries |-> << [text |-> s, lang |-> lang] >>,
        speaks |-> << [text |-> response, lang |-> lang] >>]

\* app.py:94-113 as a function of the history, the language and the text:
\* the history afterwards, the knowledge-base calls made and the speak
\* threads started
ProcessInputResult(msgs, lang, s) ==
  IF IsBlank(s)
    THEN [messages |-> msgs, queries |-> <<>>, speaks |-> <<>>]
  ELSE IF IsDuplicate(msgs, s)
    THEN [messages |-> msgs, queries |-> <<>>, speaks |-> <<>>]
  ELSE LET response == KbQuery(s, lang) IN
       [messages |-> Append(Append(msgs, UserMsg(s)), AssistantMsg(response)),
        queries |-> << [text |-> s, lang |-> lang] >>,
        speaks |-> << [text |-> response, lang |-> lang] >>]

\* app.py:94-113, the whole call, made by the refresh-cycle thread
process_input(s) ==
  LET r == ProcessInputResult(messages, language, s) IN
  /\ messages' = r.messages
  /\ kbLog' = kbLog \o r.queries
  /\ speakTasks' = speakTasks \o r.speaks
  /\ lastInput' = s

\* ------------------------------------------------ the user, at the browser
\* a click on the mic button, which the browser accepts while the button it
\* shows is enabled (app.py:204-209); it is handled by the next script run.
\* A click is taken only while a thread is left for it to start.
UserClick ==
  /\ micButton = "enabled"
  /\ ~pendingClick
  /\ nEvents < MaxEvents
  /\ Cardinality({i \in TaskIds : tasks[i].pc = "unborn"})
       > (IF uiPc \in {"l56", "l60"} THEN 1 ELSE 0)
  /\ pendingClick' = TRUE
  /\ nEvents' = nEvents + 1
  /\ UNCHANGED <<session, uiPc, uiLocals, micButton, refreshReq, tasks, collab,
                 lviFrom, voiceFrom, consumed, lastInput, toggledOff,
                 runVoice>>

\* ------------------------------------------------- the refresh-cycle thread
\* a script run starts with the widget values of the event that caused it
StartRun(sel, inp, pc) ==
  /\ uiPc = "idle"
  /\ uiPc' = pc
  /\ selected_language' = sel
  /\ user_input' = inp
  /\ refreshReq' = FALSE
  /\ UNCHANGED <<session, voice_text, micButton, tasks, collab,
                 lviFrom, voiceFrom, consumed, lastInput, toggledOff,
                 runVoice>>

\* a rerun with no new widget value: a requested rerun (st.rerun) or any
\* other interaction
Rerun ==
  /\ StartRun(language, None, "l137")
  /\ UNCHANGED <<pendingClick, nEvents>>

\* the mic click is handled: on_click=toggle_recording runs before main()
ClickRun ==
  /\ pendingClick
  /\ StartRun(language, None, "l56")
  /\ pendingClick' = FALSE
  /\ UNCHANGED nEvents

\* st.chat_input returns the submitted text (app.py:196)
SubmitRun(s) ==
  /\ nEvents < MaxEvents
  /\ Truthy(s)
  /\ StartRun(language, s, "l137")
  /\ nEvents' = nEvents + 1
  /\ UNCHANGED pendingClick

\* st.selectbox returns the newly selected language (app.py:131-135)
SelectRun(l) ==
  /\ nEvents < MaxEvents
  /\ l /= language
  /\ StartRun(l, None, "l137")
  /\ nEvents' = nEvents + 1
  /\ UNCHANGED pendingClick

\* a step of the script that touches only what its arguments name
UiStep(from, to) ==
  /\ uiPc = from
  /\ uiPc' = to

\* the stop branch returning without clearing the flag
ToggleTest_NoStop ==
  /\ uiPc = "l56"
  /\ uiPc' = IF recording THEN "l137" ELSE "l60"
  /\ UNCHANGED <<session, uiLocals, browser, tasks, collab, history>>

\* app.py:56-58, toggle_recording: the test of recording, and the stop branch
ToggleTest ==
  /\ uiPc = "l56"
  /\ IF recording
       THEN /\ recording' = FALSE
            /\ uiPc' = "l137"
            /\ toggledOff' = toggledOff \cup
                 {i \in TaskIds : tasks[i].pc \in {"l67", "l76", "l81"}}
       ELSE /\ uiPc' = "l60"
            /\ UNCHANGED <<recording, toggledOff>>
  /\ UNCHANGED <<messages, language, last_voice_input, uiLocals, browser, tasks,
                 collab, nEvents, lviFrom, voiceFrom, consumed, lastInput,
                 runVoice>>

\* line 60 left out: the thread is started with the flag still false
ToggleStart_NoFlag ==
  /\ UiStep("l60", "l137")
  /\ LET i == CHOOSE j \in TaskIds :
                /\ tasks[j].pc = "unborn"
                /\ \A k \in TaskIds : tasks[k].pc = "unborn" => j <= k
     IN tasks' = [tasks EXCEPT ![i].pc = "l67"]
  /\ UNCHANGED <<session, uiLocals, browser, collab, history>>

\* app.py:60-63, toggle_recording: set the flag and start the listen thread
ToggleStart ==
  /\ UiStep("l60", "l137")
  /\ recording' = TRUE
  /\ LET i == CHOOSE j \in TaskIds :
                /\ tasks[j].pc = "unborn"
                /\ \A k \in TaskIds : tasks[k].pc = "unborn" => j <= k
     IN tasks' = [tasks EXCEPT ![i].pc = "l67"]
  /\ UNCHANGED <<messages, language, last_voice_input, uiLocals, browser,
                 collab, history>>

\* app.py:137-139, the language switch and its st.rerun()
LanguageCheck ==
  /\ uiPc = "l137"
  /\ IF selected_language /= language
       THEN /\ language' = selected_language
            /\ refreshReq' = TRUE
            /\ uiPc' = "idle"
            /\ selected_language' = "none"
            /\ user_input' = None
       ELSE /\ uiPc' = "l185"
            /\ UNCHANGED <<language, refreshReq, selected_language, user_input>>
  /\ UNCHANGED <<messages, recording, last_voice_input, voice_text, micButton,
                 pendingClick, tasks, collab, history>>

\* app.py:185, "if st.session_state.last_voice_input:"
VoiceTest ==
  /\ uiPc = "l185"
  /\ uiPc' = IF Truthy(last_voice_input) THEN "l186" ELSE "l196"
  /\ UNCHANGED <<session, uiLocals, browser, tasks, collab, history>>

\* app.py:186, voice_text = st.session_state.last_voice_input
VoiceRead ==
  /\ UiStep("l186", "l187")
  /\ voice_text' = last_voice_input
  /\ voiceFrom' = lviFrom
  /\ UNCHANGED <<session, selected_language, user_input, browser, tasks, collab,
                 nEvents, lviFrom, consumed, lastInput, toggledOff, runVoice>>

\* line 187 left out: the transcript stays staged
VoiceClear_NoClear ==
  /\ UiStep("l187", "l188")
  /\ UNCHANGED <<session, uiLocals, browser, tasks, collab, history>>

\* app.py:187, st.session_state.last_voice_input = None
VoiceClear ==
  /\ UiStep("l187", "l188")
  /\ last_voice_input' = None
  /\ lviFrom' = 0
  /\ UNCHANGED <<messages, recording, language, uiLocals, browser, tasks, collab,
                 nEvents, voiceFrom, consumed, lastInput, toggledOff,
                 runVoice>>

\* app.py:188, process_input(voice_text)
VoiceProcess ==
  /\ UiStep("l188", "l196")
  /\ process_input(voice_text)
  /\ consumed' = IF voiceFrom \in TaskIds
                   THEN [consumed EXCEPT ![voiceFrom] = @ + 1]
                   ELSE consumed
  /\ runVoice' = voice_text
  /\ voice_text' = None
  /\ voiceFrom' = 0
  /\ UNCHANGED <<recording, language, last_voice_input, selected_language,
                 user_input, browser, tasks, nEvents, lviFrom, toggledOff>>

\* app.py:190-197, the history is shown, then "if user_input:"
ChatTest ==
  /\ uiPc = "l196"
  /\ uiPc' = IF Truthy(user_input) THEN "l198" ELSE "l204"
  /\ UNCHANGED <<session, uiLocals, browser, tasks, collab, history>>

\* app.py:198, process_input(user_input)
ChatProcess ==
  /\ UiStep("l198", "l199")
  /\ process_input(user_input)
  /\ UNCHANGED <<recording, language, last_voice_input, uiLocals, browser, tasks,
                 nEvents, lviFrom, voiceFrom, consumed, toggledOff, runVoice>>

\* line 199 left out: the run goes on to the mic button without a rerun
\* request
ChatRerun_NoRerun ==
  /\ UiStep("l199", "l204")
  /\ UNCHANGED <<session, uiLocals, browser, tasks, collab, history>>

\* app.py:199, st.rerun(): the run ends before the mic button is rendered
ChatRerun ==
  /\ UiStep("l199", "idle")
  /\ refreshReq' = TRUE
  /\ selected_language' = "none"
  /\ user_input' = None
  /\ runVoice' = None
  /\ UNCHANGED <<session, voice_text, micButton, pendingClick, tasks, collab,
                 nEvents, lviFrom, voiceFrom, consumed, lastInput, toggledOff>>

\* app.py:204-209, the mic button, disabled=st.session_state.recording;
\* the run ends (211-213 only show text)
RenderMic ==
  /\ UiStep("l204", "idle")
  /\ micButton' = IF recording THEN "disabled" ELSE "enabled"
  /\ selected_language' = "none"
  /\ user_input' = None
  /\ runVoice' = None
  /\ UNCHANGED <<session, voice_text, pendingClick, refreshReq, tasks, collab,
                 nEvents, lviFrom, voiceFrom, consumed, lastInput, toggledOff>>


\* the readiness answer is shown but does not stop the thread: it goes on to
\* listen either way
ReadyCheck_NoReturn(i) ==
  /\ tasks[i].pc = "l67"
  /\ \E ready \in BOOLEAN :
       tasks' = IF ready
                  THEN [tasks EXCEPT ![i].pc = "l76"]
                  ELSE [tasks EXCEPT ![i].pc = "l76", ![i].path = "notready",
                                     ![i].status = "unavailable"]
  /\ UNCHANGED <<session, uiPc, uiLocals, browser, collab, history>>

\* ------------------------------------------------------- the listen threads
\* app.py:67-68, voice_input.is_ready(), whose answer is the collaborator's;
\* when it is not ready the error is shown
ReadyCheck(i) ==
  /\ tasks[i].pc = "l67"
  /\ \E ready \in BOOLEAN :
       tasks' = IF ready
                  THEN [tasks EXCEPT ![i].pc = "l76"]
                  ELSE [tasks EXCEPT ![i].pc = "l69", ![i].path = "notready",
                                     ![i].status = "unavailable"]
  /\ UNCHANGED <<session, uiPc, uiLocals, browser, collab, history>>

\* the not-ready path without line 69
NotReadyReset_Skip(i) ==
  /\ tasks[i].pc = "l69"
  /\ tasks' = [tasks EXCEPT ![i].pc = "l70"]
  /\ UNCHANGED <<session, uiPc, uiLocals, browser, collab, history>>

\* app.py:69, st.session_state.recording = False on the not-ready path
NotReadyReset(i) ==
  /\ tasks[i].pc = "l69"
  /\ recording' = FALSE
  /\ tasks' = [tasks EXCEPT ![i].pc = "l70", ![i].cleanups = @ + 1]
  /\ UNCHANGED <<messages, language, last_voice_input, uiPc, uiLocals, browser,
                 collab, history>>

\* the not-ready path without its return: after the rerun request the thread
\* goes on into the try block
NotReadyRerun_FallThrough(i) ==
  /\ tasks[i].pc = "l70"
  /\ refreshReq' = TRUE
  /\ tasks' = [tasks EXCEPT ![i].pc = "l76", ![i].reruns = @ + 1]
  /\ UNCHANGED <<session, uiPc, uiLocals, micButton, pendingClick, collab, history>>

\* app.py:70-71, st.rerun() and the end of the thread
NotReadyRerun(i) ==
  /\ tasks[i].pc = "l70"
  /\ refreshReq' = TRUE
  /\ tasks' = [tasks EXCEPT ![i] = Ended(tasks[i])]
  /\ UNCHANGED <<session, uiPc, uiLocals, micButton, pendingClick, collab, history>>

\* what voice_input.listen can do: return a text, return nothing, raise
ListenResults == {t \in Texts : Truthy(t)} \cup {None, <<>>, <<"raise">>}

\* listen without the "if text:" test: whatever it returns goes on to line 81
Listen_NoTextTest(i) ==
  /\ tasks[i].pc = "l76"
  /\ \E r \in ListenResults :
       tasks' =
         IF r = <<"raise">>
           THEN [tasks EXCEPT ![i].pc = "l90", ![i].path = "error",
                              ![i].status = "error", ![i].listened = TRUE,
                              ![i].lang = language]
         ELSE IF Truthy(r)
           THEN [tasks EXCEPT ![i].pc = "l81", ![i].path = "text",
                              ![i].status = "recognized", ![i].listened = TRUE,
                              ![i].lang = language, ![i].text = r]
           ELSE [tasks EXCEPT ![i].pc = "l81", ![i].path = "empty",
                              ![i].status = "nothing_heard", ![i].listened = TRUE,
                              ![i].lang = language, ![i].text = <<>>]
  /\ UNCHANGED <<session, uiPc, uiLocals, browser, collab, history>>

\* app.py:76-87, voice_input.listen(language=st.session_state.language,
\* timeout=15) and what is shown for its outcome; a text goes on to line 81
Listen(i) ==
  /\ tasks[i].pc = "l76"
  /\ \E r \in ListenResults :
       tasks' =
         IF r = <<"raise">>
           THEN [tasks EXCEPT ![i].pc = "l90", ![i].path = "error",
                              ![i].status = "error", ![i].listened = TRUE,
                              ![i].lang = language]
         ELSE IF Truthy(r)
           THEN [tasks EXCEPT ![i].pc = "l81", ![i].path = "text",
                              ![i].status = "recognized", ![i].listened = TRUE,
                              ![i].lang = language, ![i].text = r]
           ELSE [tasks EXCEPT ![i].pc = "l90", ![i].path = "empty",
                              ![i].status = "nothing_heard", ![i].listened = TRUE,
                              ![i].lang = language]
  /\ UNCHANGED <<session, uiPc, uiLocals, browser, collab, history>>

\* line 81 made conditional on the flag: a transcript recognised after the
\* toggle-off is dropped
Stage_OnlyIfRecording(i) ==
  /\ tasks[i].pc = "l81"
  /\ IF recording
       THEN /\ last_voice_input' = tasks[i].text
            /\ lviFrom' = i
       ELSE UNCHANGED <<last_voice_input, lviFrom>>
  /\ tasks' = [tasks EXCEPT ![i].pc = "l90", ![i].text = None]
  /\ UNCHANGED <<messages, recording, language, uiPc, uiLocals, browser, collab,
                 nEvents, voiceFrom, consumed, lastInput, toggledOff,
                 runVoice>>

\* app.py:81, st.session_state.last_voice_input = text
Stage(i) ==
  /\ tasks[i].pc = "l81"
  /\ last_voice_input' = tasks[i].text
  /\ lviFrom' = i
  /\ tasks' = [tasks EXCEPT ![i].pc = "l90", ![i].text = None]
  /\ UNCHANGED <<messages, recording, language, uiPc, uiLocals, browser, collab,
                 nEvents, voiceFrom, consumed, lastInput, toggledOff,
                 runVoice>>

\* the reset of line 90 left out of the finally block
FinallyReset_NoClear(i) ==
  /\ tasks[i].pc = "l90"
  /\ tasks' = [tasks EXCEPT ![i].pc = "l91", ![i].cleanups = @ + 1]
  /\ UNCHANGED <<session, uiPc, uiLocals, browser, collab, history>>

\* app.py:88-90, finally: st.session_state.recording = False
FinallyReset(i) ==
  /\ tasks[i].pc = "l90"
  /\ recording' = FALSE
  /\ tasks' = [tasks EXCEPT ![i].pc = "l91", ![i].cleanups = @ + 1]
  /\ UNCHANGED <<messages, language, last_voice_input, uiPc, uiLocals, browser,
                 collab, history>>

\* app.py:91, st.rerun() and the end of the thread
FinallyRerun(i) ==
  /\ tasks[i].pc = "l91"
  /\ refreshReq' = TRUE
  /\ tasks' = [tasks EXCEPT ![i] = Ended(tasks[i])]
  /\ UNCHANGED <<session, uiPc, uiLocals, micButton, pendingClick, collab, history>>

\* -------------------------------------------------------------- the system
UiNext ==
  \/ Rerun
  \/ ClickRun
  \/ \E s \in Texts : SubmitRun(s)
  \/ \E l \in Languages : SelectRun(l)
  \/ ToggleTest
  \/ ToggleStart
  \/ LanguageCheck
  \/ VoiceTest
  \/ VoiceRead
  \/ VoiceClear
  \/ VoiceProcess
  \/ ChatTest
  \/ ChatProcess
  \/ ChatRerun
  \/ RenderMic

ListenNext(i) ==
  \/ ReadyCheck(i)
  \/ NotReadyReset(i)
  \/ NotReadyRerun(i)
  \/ Listen(i)
  \/ Stage(i)
  \/ FinallyReset(i)
  \/ FinallyRerun(i)

Next ==
  \/ UserClick
  \/ UiNext
  \/ \E i \in TaskIds : ListenNext(i)

Spec == Init /\ [][Next]_vars

\* ================================================================ claims
\* the step in which the refresh-cycle thread makes the call process_input(s)
PICall(s) ==
  \/ uiPc = "l188" /\ uiPc' = "l196" /\ voice_text = s
  \/ uiPc = "l198" /\ uiPc' = "l199" /\ user_input = s

\* a text that is non-empty and not all whitespace
NonBlankText(s) == s /= None /\ Len(s) > 0 /\ \E k \in 1..Len(s) : s[k] /= " "

\* the most recent entry of the history is a User message with content s
GuardRejects(msgs, s) ==
  Len(msgs) > 0 /\ msgs[Len(msgs)] = [role |-> "user", content |-> s]

\* C1: a call process_input(s) with s non-empty, not all whitespace and not
\* rejected by the duplicate guard appends exactly Message{User, s} and then
\* Message{Assistant, response}, response being the knowledge base's answer
\* to (s, current language), makes that one query and starts exactly one
\* speak thread, which carries that response.
C1_AcceptedInputAppendsPair ==
  [][\A s \in Texts :
       (PICall(s) /\ NonBlankText(s) /\ ~GuardRejects(messages, s)) =>
         /\ messages' = messages \o
              << [role |-> "user", content |-> s],
                 [role |-> "assistant", content |-> KbQuery(s, language)] >>
         /\ Len(speakTasks') = Len(speakTasks) + 1
         /\ SubSeq(speakTasks', 1, Len(speakTasks)) = speakTasks
         /\ Last(speakTasks').text = KbQuery(s, language)
         /\ kbLog' = Append(kbLog, [text |-> s, lang |-> language])
    ]_vars

\* a typed text has been processed: the pair is in the history and its speak
\* thread was started
C1_Witness ==
  /\ uiPc = "l199"
  /\ lastInput = <<" ", "a">>
  /\ Len(messages) = 2
  /\ messages[1] = UserMsg(<<" ", "a">>)
  /\ messages[2].role = "assistant"
  /\ Len(speakTasks) = 1

\* C2: when s is submitted twice in a row (the previous process_input call
\* had the same argument), the second call leaves messages as it is and
\* starts no speak thread.
C2_RepeatIsNoOp ==
  [][\A s \in Texts :
       (PICall(s) /\ lastInput = s) =>
         /\ messages' = messages
         /\ speakTasks' = speakTasks
    ]_vars

\* C3: for s empty (or None) or all whitespace, process_input(s) changes
\* nothing: messages, recording, language and last_voice_input stay, the
\* knowledge base is not queried and no speak thread is started.  The first
\* conjunct is the call on every such s in every reachable state, the second
\* the calls the script makes.
C3_BlankInputIsNoOp ==
  /\ [](\A s \in Texts \cup {None} :
          ~NonBlankText(s) =>
            LET r == ProcessInputResult(messages, language, s) IN
            r.messages = messages /\ r.queries = <<>> /\ r.speaks = <<>>)
  /\ [][\A s \in Texts \cup {None} :
          (PICall(s) /\ ~NonBlankText(s)) =>
            UNCHANGED <<messages, recording, language, last_voice_input,
                        kbLog, speakTasks>>
       ]_vars

\* a whitespace transcript was recognised, staged and given to process_input
C3_Witness ==
  /\ uiPc = "l196"
  /\ lastInput = <<" ">>
  /\ consumed[1] = 1
  /\ messages = <<>>

\* a listen thread that was started and has not ended
Outstanding(i) == tasks[i].pc \notin {"unborn", "done"}

NoneOutstanding == \A i \in TaskIds : ~Outstanding(i)

\* the step in which listen thread i ends
Ends(i) == tasks[i].pc /= "done" /\ tasks'[i].pc = "done"

\* the step in which listen thread i does its cleanup write
CleansUp(i) == tasks'[i].cleanups = tasks[i].cleanups + 1

C5_TranscriptConsumedAtMostOnce ==
  /\ \A i \in TaskIds : consumed[i] <= 1
  /\ uiPc = "l188" => (voiceFrom \in TaskIds /\ lviFrom /= voiceFrom)

\* thread 1's transcript was processed and a later script run has reached the
\* test of line 185 with nothing staged
C5_Witness ==
  /\ consumed[1] = 1
  /\ uiPc = "l185"
  /\ last_voice_input = None
  /\ Len(messages) = 2

C7_CleanupExactlyOnce ==
  \A i \in TaskIds :
    /\ tasks[i].pc \in {"unborn", "l67", "l69", "l76", "l81", "l90"} =>
         (tasks[i].cleanups = 0 /\ tasks[i].reruns = 0)
    /\ tasks[i].pc \in {"l70", "l91"} =>
         (tasks[i].cleanups = 1 /\ tasks[i].reruns = 0)
    /\ tasks[i].pc = "done" =>
         (tasks[i].cleanups = 1 /\ tasks[i].reruns = 1)

\* one thread has ended and another has done its cleanup write after listen
\* raised
C7_Witness ==
  /\ tasks[1].pc = "done"
  /\ tasks[2].pc = "l91"
  /\ tasks[2].path = "error"

\* the step is one of listen thread i
TaskSteps(i) == tasks'[i] /= tasks[i]

\* C8: when is_ready() answers not ready, the listen thread never calls the
\* blocking listen: it shows the "not available" error, sets recording to
\* FALSE, requests a rerun and ends, and leaves last_voice_input and messages
\* as they are.
C8_NotReadyNeverListens ==
  /\ [](\A i \in TaskIds :
          tasks[i].path = "notready" =>
            /\ tasks[i].pc \in {"l69", "l70"}
            /\ ~tasks[i].listened
            /\ tasks[i].status = "unavailable")
  /\ [][\A i \in TaskIds :
          (TaskSteps(i) /\ (tasks[i].path = "notready" \/ tasks'[i].path = "notready")) =>
            /\ UNCHANGED <<last_voice_input, messages>>
            /\ tasks[i].pc = "l69" => (recording' = FALSE /\ tasks'[i].pc = "l70")
            /\ tasks[i].pc = "l70" => (refreshReq' = TRUE /\ tasks'[i].pc = "done")
       ]_vars

\* a thread found recognition not ready and has cleared recording
C8_Witness ==
  /\ tasks[1].pc = "l70"
  /\ tasks[1].path = "notready"
  /\ tasks[1].status = "unavailable"
  /\ ~recording

\* C9: when listen returns nothing or raises, the thread writes neither
\* last_voice_input nor messages in any of its steps from the outcome on,
\* the warning (nothing heard) or the error (exception) is shown, and its
\* cleanup leaves recording FALSE.
C9_EmptyOrErrorStagesNothing ==
  /\ [](\A i \in TaskIds :
          /\ tasks[i].path = "empty" =>
               (tasks[i].status = "nothing_heard" /\ tasks[i].pc \in {"l90", "l91"})
          /\ tasks[i].path = "error" =>
               (tasks[i].status = "error" /\ tasks[i].pc \in {"l90", "l91"}))
  /\ [][\A i \in TaskIds :
          (TaskSteps(i) /\ ( tasks[i].path \in {"empty", "error"}
                            \/ tasks'[i].path \in {"empty", "error"})) =>
            /\ UNCHANGED <<last_voice_input, messages>>
            /\ tasks[i].pc = "l90" => recording' = FALSE
       ]_vars

\* listen returned nothing in thread 1 and raised in thread 2; both have done
\* their cleanup and nothing is staged
C9_Witness ==
  /\ tasks[1].pc = "l91" /\ tasks[1].path = "empty"
  /\ tasks[2].pc = "l91" /\ tasks[2].path = "error"
  /\ last_voice_input = None
  /\ ~recording

\* C10: the language switch changes language and nothing else of the session
\* state; every knowledge-base query and every listen call made afterwards
\* is made with the language then selected, and a speak thread gets the
\* language of the query that produced its response.
C10_LanguageSwitchFrame ==
  /\ [][language' /= language =>
          /\ UNCHANGED <<messages, recording, last_voice_input>>
          /\ language' = selected_language
       ]_vars
  /\ [][kbLog' /= kbLog =>
          /\ Len(kbLog') = Len(kbLog) + 1
          /\ Last(kbLog').lang = language
          /\ Len(speakTasks') = Len(speakTasks) + 1
          /\ Last(speakTasks').lang = Last(kbLog').lang
          /\ Last(speakTasks').text = KbQuery(Last(kbLog').text, Last(kbLog').lang)
          /\ Last(messages').content = Last(speakTasks').text
       ]_vars
  /\ [][\A i \in TaskIds :
          (~tasks[i].listened /\ tasks'[i].listened) => tasks'[i].lang = language
       ]_vars

\* a question asked in English, the language switched to French, and the
\* same kind of question then answered in French, the English pair still in
\* the history
C10_Witness ==
  /\ language = "french"
  /\ Len(kbLog) = 2
  /\ kbLog[1].lang = "english"
  /\ kbLog[2].lang = "french"
  /\ Len(messages) = 4
  /\ messages[2] = AssistantMsg(KbQuery(<<"a">>, "english"))
  /\ messages[4] = AssistantMsg(KbQuery(<<"a">>, "french"))

\* C11: no staged transcript is lost: the transcript of thread i leaves
\* last_voice_input only when the script has extracted it (it holds thread
\* i's transcript in voice_text), never by being overwritten by another
\* thread or cleared unread.
C11_NoTranscriptLost ==
  [][\A i \in TaskIds :
       (lviFrom = i /\ lviFrom' /= i) => voiceFrom' = i
    ]_vars

\* C12: the history is append-only: in every step the old value of messages
\* is a prefix of the new one.
C12_MessagesAppendOnly ==
  [][/\ Len(messages') >= Len(messages)
     /\ SubSeq(messages', 1, Len(messages)) = messages
    ]_vars

\* the history has grown twice, by a typed text and by a transcript
C12_Witness ==
  /\ Len(messages) = 4
  /\ consumed[1] = 1
  /\ messages[1].role = "user"
  /\ messages[3].role = "user"
  /\ messages[1].content /= messages[3].content

\* C13: toggle_recording has two outcomes.  Called while recording is true it
\* sets recording to FALSE, starts no thread and leaves every listen thread
\* as it is; called while recording is false it sets recording to TRUE and
\* starts exactly one listen thread.  Its steps leave messages, language and
\* last_voice_input unchanged.
C13_ToggleTwoOutcomes ==
  /\ [][(uiPc = "l56" /\ uiPc' /= uiPc) =>
          /\ UNCHANGED <<messages, language, last_voice_input, tasks>>
          /\ recording => (recording' = FALSE /\ uiPc' = "l137")
          /\ ~recording => (recording' = FALSE /\ uiPc' = "l60")
       ]_vars
  /\ [][(uiPc = "l60" /\ uiPc' /= uiPc) =>
          /\ UNCHANGED <<messages, language, last_voice_input>>
          /\ recording' = TRUE
          /\ uiPc' = "l137"
          /\ \E i \in TaskIds :
               /\ tasks[i].pc = "unborn"
               /\ tasks' = [tasks EXCEPT ![i].pc = "l67"]
       ]_vars
  /\ [][(\E i \in TaskIds : tasks[i].pc = "unborn" /\ tasks'[i].pc /= "unborn") =>
          uiPc = "l60"
       ]_vars

\* the second click was handled while thread 1 was before its readiness
\* check: recording is false again and the thread is untouched
C13_Witness ==
  /\ uiPc = "l137"
  /\ ~recording
  /\ tasks[1].pc = "l67"
  /\ tasks[2].pc = "unborn"
  /\ ~pendingClick

\* C14: a listen thread that was still to stage when recording was toggled
\* off is not stopped: it can always take its next step, it stages its
\* transcript and does its cleanup as any other thread, the script run that
\* finds the transcript staged extracts it, and process_input treats it as
\* any other text (a non-blank one is appended with its answer).
C14_StaleTranscriptProcessed ==
  /\ [](\A i \in toggledOff :
          tasks[i].pc \notin {"unborn", "done"} => ENABLED ListenNext(i))
  /\ [][\A i \in toggledOff :
          TaskSteps(i) =>
            /\ tasks[i].pc = "l81" =>
                 (last_voice_input' = tasks[i].text /\ tasks'[i].pc = "l90")
            /\ tasks[i].pc = "l90" =>
                 (recording' = FALSE /\ tasks'[i].pc = "l91")
       ]_vars
  /\ [][(uiPc = "l185" /\ uiPc' /= uiPc /\ lviFrom \in toggledOff) =>
          uiPc' = "l186"
       ]_vars
  /\ [][(uiPc = "l188" /\ uiPc' /= uiPc /\ voiceFrom \in toggledOff
           /\ NonBlankText(voice_text) /\ ~GuardRejects(messages, voice_text)) =>
          messages' = messages \o
            << [role |-> "user", content |-> voice_text],
               [role |-> "assistant", content |-> KbQuery(voice_text, language)] >>
       ]_vars

\* recording was toggled off while thread 1 was listening, and its
\* transcript is in the history with its answer
C14_Witness ==
  /\ 1 \in toggledOff
  /\ consumed[1] = 1
  /\ Len(messages) = 2
  /\ messages[1] = UserMsg(<<"a">>)

\* C15: background writes are atomic with respect to the refresh-cycle
\* thread: no listen thread writes last_voice_input between the script's
\* test and read of it (lines 185-186) and its clearing (line 187), and no
\* listen thread writes recording between toggle_recording's test (line 56)
\* and its write (line 60).
C15_BackgroundWritesAtomic ==
  [][\A i \in TaskIds :
       /\ (uiPc \in {"l186", "l187"} /\ uiPc' = uiPc) =>
            ~(tasks[i].pc = "l81" /\ tasks'[i].pc = "l90")
       /\ (uiPc = "l60" /\ uiPc' = uiPc) => ~CleansUp(i)
    ]_vars

\* the order of the statements of one script run
ScriptOrder ==
  { <<"idle", "l56">>, <<"idle", "l137">>, <<"l56", "l60">>, <<"l56", "l137">>,
    <<"l60", "l137">>, <<"l137", "idle">>, <<"l137", "l185">>,
    <<"l185", "l186">>, <<"l185", "l196">>, <<"l186", "l187">>,
    <<"l187", "l188">>, <<"l188", "l196">>, <<"l196", "l198">>,
    <<"l196", "l204">>, <<"l198", "l199">>, <<"l199", "idle">>,
    <<"l204", "idle">> }

\* C16: one script run goes through its steps in a fixed order: a staged
\* transcript is extracted, cleared and processed before the history is
\* rendered and before the typed text of the same run is processed, so the
\* transcript's pair precedes the typed text's pair; a typed submission is
\* followed by the rerun request; the mic button is rendered disabled
\* exactly when recording is true at that moment.
C16_RunOrder ==
  /\ [][uiPc' /= uiPc => <<uiPc, uiPc'>> \in ScriptOrder]_vars
  /\ [](/\ uiPc \in {"l187", "l188"} => Truthy(voice_text)
        /\ uiPc \in {"l196", "l198", "l199", "l204"} => voice_text = None)
  /\ [][(uiPc = "l198" /\ uiPc' /= uiPc
           /\ NonBlankText(runVoice) /\ NonBlankText(user_input)) =>
          LET n == Len(messages') IN
          /\ n = Len(messages) + 2
          /\ n >= 4
          /\ messages'[n - 3] = [role |-> "user", content |-> runVoice]
          /\ messages'[n - 2].role = "assistant"
          /\ messages'[n - 1] = [role |-> "user", content |-> user_input]
          /\ messages'[n].role = "assistant"
       ]_vars
  /\ [][(uiPc = "l199" /\ uiPc' /= uiPc) =>
          (refreshReq' = TRUE /\ micButton' = micButton)
       ]_vars
  /\ [][(uiPc = "l204" /\ uiPc' /= uiPc) =>
          micButton' = (IF recording THEN "disabled" ELSE "enabled")
       ]_vars
  /\ [][micButton' /= micButton => uiPc = "l204"]_vars

\* one run has processed a transcript and then a typed text
C16_Witness ==
  /\ uiPc = "l199"
  /\ runVoice = <<"a">>
  /\ user_input = <<" ", "a">>
  /\ Len(messages) = 4
  /\ messages[1] = UserMsg(<<"a">>)
  /\ messages[3] = UserMsg(<<" ", "a">>)

\* every listen thread that has been started keeps running: listen returns
\* or raises within its timeout of 15 seconds and the scheduler does not
\* starve a thread
FairSpec == Spec /\ \A i \in TaskIds : WF_vars(ListenNext(i))

\* C17: no stuck state: once a toggle has set recording and started listen
\* thread i, a state follows in which recording is false and the thread has
\* requested its rerun.
C17_RecordingEventuallyCleared ==
  \A i \in TaskIds :
    (tasks[i].pc = "l67") ~> (~recording /\ tasks[i].reruns = 1)

\* thread 1 has ended with its rerun request pending and recording is false
C17_Witness ==
  /\ tasks[1].pc = "done"
  /\ tasks[1].reruns = 1
  /\ refreshReq
  /\ ~recording
  /\ micButton = "disabled"

\* ------------------------------------------- process_input on any history
\* longest history that process_input is given at the start
MaxHistory == 2

\* the entries a history can hold: a text of the user, or an answer of the
\* knowledge base, which may be any string
HistoryMessages ==
  {UserMsg(t) : t \in Texts} \cup {AssistantMsg(t) : t \in Texts}

Histories ==
  UNION { [1..n -> HistoryMessages] : n \in 0..MaxHistory }

\* the session state with any history and any selected language
GuardInit ==
  /\ messages \in Histories
  /\ language \in Languages
  /\ recording = FALSE
  /\ last_voice_input = None
  /\ uiPc = "idle"
  /\ selected_language = "none"
  /\ user_input = None
  /\ voice_text = None
  /\ micButton = "absent"
  /\ pendingClick = FALSE
  /\ refreshReq = FALSE
  /\ tasks = [i \in TaskIds |-> Unborn]
  /\ kbLog = <<>>
  /\ speakTasks = <<>>
  /\ nEvents = 0
  /\ lviFrom = 0
  /\ voiceFrom = 0
  /\ consumed = [i \in TaskIds |-> 0]
  /\ lastInput = None
  /\ toggledOff = {}
  /\ runVoice = None

\* one call process_input(s)
GuardCall(s) ==
  /\ Len(messages) <= MaxHistory
  /\ process_input(s)
  /\ UNCHANGED <<recording, language, last_voice_input, uiPc, uiLocals, browser,
                 tasks, nEvents, lviFrom, voiceFrom, consumed, toggledOff,
                 runVoice>>

GuardNext == \E s \in Texts \cup {None} : GuardCall(s)

GuardSpec == GuardInit /\ [][GuardNext]_vars

\* C18: the duplicate guard rejects a (non-blank) text exactly when the
\* history is non-empty and its last entry is a User message with that
\* content: then nothing is appended, the knowledge base is not queried and
\* no speak thread is started; with an Assistant message last, or a User
\* message of other content, the text is processed.
C18_GuardRejectsExactlyDuplicates ==
  /\ [](\A s \in Texts :
          NonBlankText(s) =>
            LET r == ProcessInputResult(messages, language, s) IN
            IF GuardRejects(messages, s)
              THEN r.messages = messages /\ r.queries = <<>> /\ r.speaks = <<>>
              ELSE /\ r.messages = messages \o
                        << [role |-> "user", content |-> s],
                           [role |-> "assistant", content |-> KbQuery(s, language)] >>
                   /\ Len(r.queries) = 1
                   /\ Len(r.speaks) = 1)
  /\ [][messages' /= messages =>
          /\ ~GuardRejects(messages, lastInput')
          /\ Len(kbLog') = Len(kbLog) + 1
          /\ Len(speakTasks') = Len(speakTasks) + 1
       ]_vars
  /\ [][(lastInput' /= lastInput /\ GuardRejects(messages, lastInput')) =>
          UNCHANGED <<messages, kbLog, speakTasks>>
       ]_vars

\* the text "a" was given to process_input with User "a" last in the
\* history, and nothing was appended or queried
C18_Witness ==
  /\ lastInput = <<"a">>
  /\ messages = << AssistantMsg(<<"a">>), UserMsg(<<"a">>) >>
  /\ kbLog = <<>>
  /\ speakTasks = <<>>

\* C19: at most one listen thread is in flight (started and not yet ended) at
\* any time: no listen thread is started while an earlier one has not ended.
C19_AtMostOneListenTask ==
  Cardinality({i \in TaskIds : Outstanding(i)}) <= 1

\* C20: the history is a strict alternation User, Assistant, ... of even
\* length: entry 2k-1 is the k-th processed text as a User message and entry
\* 2k the knowledge base's answer to it as an Assistant message, so the last
\* entry, if any, is an Assistant message.  Only the script thread, inside
\* process_input, writes the history; no step of a listen thread does.
C20_HistoryAlternates ==
  /\ [](/\ Len(messages) = 2 * Len(kbLog)
        /\ \A k \in 1..Len(kbLog) :
             /\ messages[2 * k - 1] =
                  [role |-> "user", content |-> kbLog[k].text]
             /\ messages[2 * k] =
                  [role |-> "assistant",
                   content |-> KbQuery(kbLog[k].text, kbLog[k].lang)])
  /\ [][messages' /= messages =>
          /\ uiPc \in {"l188", "l198"}
          /\ \A i \in TaskIds : ~TaskSteps(i)
       ]_vars

\* two texts have been processed, and a listen thread has run to its end
C20_Witness ==
  /\ Len(messages) = 4
  /\ messages[3].role = "user"
  /\ messages[4].role = "assistant"
  /\ tasks[1].pc = "done"
  /\ uiPc = "idle"

====
